---- MODULE Spec2Model ----
(***************************************************************************)
(* The asynchronous analysis pipeline of the repository:                   *)
(*   - diagnosis/tasks.py  process_audio_recording, the Celery task that   *)
(*     takes one AudioRecording through processing / completed / failed,   *)
(*     with the job-level retry of shared_task(bind=True, max_retries=3);  *)
(*   - diagnosis/ai_engine/detect_stuttering.py  StutterDetector           *)
(*     .analyze_audio, the HTTP client with its own retry loop.            *)
(* The database tables are functions and sequences of rows, the broker is  *)
(* a set of task messages, and one worker executes one message at a time,  *)
(* one source statement group per step (pc).                               *)
(***************************************************************************)
EXTENDS Integers, Sequences, FiniteSets, TLC

(* ------------------------------------------------------------------ *)
(* Bounds and program constants                                        *)
(* ------------------------------------------------------------------ *)

\* Largest value of settings.STUTTER_API_MAX_RETRIES the model configures.
MaxApiRetries == 3
MaxEvents == 2

\* @shared_task(bind=True, max_retries=3)
TaskMaxRetries == 3

\* countdown = 60 * (self.request.retries + 1)
BaseDelay == 60

\* response.text[:200] in the message of the HTTP error
TruncLen == 200

\* The one Recording the upload view created and dispatched a job for.
RecordingIds == {1}

\* HTTP error statuses raise_for_status() raises for (a 4xx, a 5xx, and 503).
HttpErrorStatuses == {404, 500, 503}

\* Lengths of response.text of an error response: empty, short, over the cut.
BodyLens == {0, 150, 250}

\* Shapes of the JSON body of a 200 answer: a well-formed mapping, JSON null,
\* a JSON list, and a mapping whose actual_transcript has no len().
Payloads == {"dict", "null", "list", "badlen"}

Min(a, b) == IF a < b THEN a ELSE b

(* ------------------------------------------------------------------ *)
(* Exceptions and their messages                                       *)
(* ------------------------------------------------------------------ *)

\* A message text: its format string (tmpl), the attempt count, HTTP status
\* and body length it interpolates, and whether analyze_audio's outer
\* handler prefixed it with "Audio analysis failed: ".
Msg(tmpl, n, st, body, wrapped) ==
    [tmpl |-> tmpl, n |-> n, status |-> st, body |-> body, wrapped |-> wrapped]

\* error_message = models.TextField(blank=True): the empty string.
NoMessage == Msg("", 0, 0, 0, FALSE)

Exc(cls, msg) == [cls |-> cls, msg |-> msg]

NoExc == Exc("None", NoMessage)

\* str(e): the message of the exception, without its class.
Str(e) == e.msg


(* ------------------------------------------------------------------ *)
(* StutterDetector.analyze_audio: the handlers of the retry loop       *)
(* ------------------------------------------------------------------ *)

\* What one pass through the loop body decides: wait and go round again
\* ("sleep"), leave analyze_audio with a result ("return"), or raise.
Sleep == [next |-> "sleep", exc |-> NoExc]
Return == [next |-> "return", exc |-> NoExc]
Raise(e) == [next |-> "raise", exc |-> e]

\* Mutant of TimeoutHandler: the last attempt waits instead of raising.
TimeoutHandler_NeverRaises(att, max) ==
    IF att <= max
    THEN Sleep
    ELSE Raise(Exc("TimeoutError", Msg("timed_out_tried", max, 0, 0, FALSE)))

\* except requests.exceptions.Timeout
TimeoutHandler(att, max) ==
    IF att < max
    THEN Sleep
    ELSE Raise(Exc("TimeoutError", Msg("timed_out_tried", max, 0, 0, FALSE)))

\* Mutant of ConnectionErrorHandler: gives up one attempt early.
ConnectionErrorHandler_OneShort(att, max) ==
    IF att + 1 < max
    THEN Sleep
    ELSE Raise(Exc("ConnectionError", Msg("connect_failed_after", max, 0, 0, FALSE)))

\* except requests.exceptions.ConnectionError
ConnectionErrorHandler(att, max) ==
    IF att < max
    THEN Sleep
    ELSE Raise(Exc("ConnectionError", Msg("connect_failed_after", max, 0, 0, FALSE)))

\* Mutant of HTTPErrorHandler: every 5xx is retried, not only 503.
HTTPErrorHandler_RetryAny5xx(att, max, st, body) ==
    IF st >= 500 /\ att < max
    THEN Sleep
    ELSE Raise(Exc("RuntimeError", Msg("api_error", 0, st, Min(body, TruncLen), FALSE)))

\* except requests.exceptions.HTTPError: only a 503 with attempts left goes
\* round again; the message carries the status and response.text[:200]
\* (body 0 stands for the placeholder 'Unknown error' of an empty text).
HTTPErrorHandler(att, max, st, body) ==
    IF st = 503 /\ att < max
    THEN Sleep
    ELSE Raise(Exc("RuntimeError", Msg("api_error", 0, st, Min(body, TruncLen), FALSE)))

\* Mutant of RequestExceptionHandler: the failure is raised at once.
RequestExceptionHandler_NotRetried(att, max) ==
    Raise(Exc("RuntimeError", Msg("request_failed_after", max, 0, 0, FALSE)))

\* except requests.exceptions.RequestException
RequestExceptionHandler(att, max) ==
    IF att < max
    THEN Sleep
    ELSE Raise(Exc("RuntimeError", Msg("request_failed_after", max, 0, 0, FALSE)))

\* A 200 answer: response.json(), the logging of the transcripts, break,
\* the "result is None" test and _format_result.
SuccessPath(payload, max) ==
    CASE payload = "dict" -> Return
      [] payload = "null" ->
           Raise(Exc("RuntimeError", Msg("failed_to_get_response", max, 0, 0, FALSE)))
      [] payload = "list" ->
           Raise(Exc("AttributeError", Msg("no_attribute_get", 0, 0, 0, FALSE)))
      [] OTHER ->
           Raise(Exc("TypeError", Msg("no_len", 0, 0, 0, FALSE)))

\* The for loop ran out without a result: "if result is None: raise".
LoopExhausted(max) ==
    Exc("RuntimeError", Msg("failed_to_get_response", max, 0, 0, FALSE))

\* The outer handlers of analyze_audio: four classes are re-raised as they
\* are, everything else becomes RuntimeError("Audio analysis failed: ...").
OuterExcept(e) ==
    IF e.cls \in {"FileNotFoundError", "ValueError", "TimeoutError", "ConnectionError"}
    THEN e
    ELSE Exc("RuntimeError", [e.msg EXCEPT !.wrapped = TRUE])

\* What one HTTP attempt can bring.
Outcome(cls, st, body, payload) ==
    [cls |-> cls, status |-> st, body |-> body, payload |-> payload]

NoOutcome == Outcome("none", 0, 0, "none")

Outcomes ==
    {Outcome("ok", 200, 0, p) : p \in Payloads}
    \cup {Outcome(c, 0, 0, "none") : c \in {"timeout", "connect", "reqexc"}}
    \cup {Outcome("http", s, b, "none") : s \in HttpErrorStatuses, b \in BodyLens}

\* The failure class of an attempt, as the retry policy tells them apart.
FailureClass(o) ==
    IF o.cls = "http"
    THEN (IF o.status = 503 THEN "http503" ELSE "http_other")
    ELSE o.cls

\* The except clause that takes the attempt's exception, in source order.
Dispatch(o, att, max) ==
    CASE o.cls = "ok" -> SuccessPath(o.payload, max)
      [] o.cls = "timeout" -> TimeoutHandler(att, max)
      [] o.cls = "connect" -> ConnectionErrorHandler(att, max)
      [] o.cls = "http" -> HTTPErrorHandler(att, max, o.status, o.body)
      [] OTHER -> RequestExceptionHandler(att, max)


(* ------------------------------------------------------------------ *)
(* State                                                               *)
(* ------------------------------------------------------------------ *)

VARIABLES
    AudioRecording,   \* the table: recording id -> row
    AnalysisResult,   \* the table: a sequence of rows [recording |-> id]
    queue,            \* the broker: task messages waiting for a worker
    pc,               \* where the worker is in process_audio_recording
    request,          \* self.request of the running execution
    recording,        \* the task's in-memory model instance
    exc,              \* the exception the execution is handling or raised
    converted_path,   \* "none" (None) or "tmp" (the NamedTemporaryFile)
    use_path,         \* "audio" (audio_path) or "tmp" (converted_path)
    conversions,      \* times this execution entered the conversion block
    conv_failed,      \* the conversion of this execution raised
    file_path,        \* analyze_audio: the audio_path argument
    tempFiles,        \* temporary .wav files on disk, named by execution
    rmFailed,         \* os.remove of this execution's file raised
    max_retries,      \* StutterDetector.max_retries (settings)
    callState,        \* analyze_audio: "none", "running", "returned", "raised"
    attempt,          \* the loop variable of the retry loop
    requests,         \* requests.post calls of this analyze_audio call
    fails,            \* of which failed
    sleeps,           \* time.sleep(retry_delay) calls of this call
    seen,             \* failure classes met in this call
    lastOutcome,      \* what the last requests.post brought
    callLog,          \* external calls made: <<which, persisted status>>
    statusHist,       \* every value the persisted status has taken, in order
    created,          \* AnalysisResult rows ever inserted
    countdowns,       \* the countdown of every retry scheduled, in order
    executions,       \* executions started
    lastExit,         \* how the last execution ended
    deleted,          \* the row was deleted while this execution was running
    callee,           \* the function applied on its own, "none" in a job
    args,             \* its arguments
    called,           \* it has been applied
    ret               \* what it raised and what it returned

vars ==
    <<AudioRecording, AnalysisResult, queue, pc, request, recording, exc,
      converted_path, use_path, conversions, conv_failed, file_path, tempFiles,
      rmFailed, max_retries, callState,
      attempt, requests, fails, sleeps, seen, lastOutcome, callLog,
      statusHist, created, countdowns, executions, lastExit,
      deleted, callee, args, called, ret>>

pureVars == <<callee, args, called, ret>>
dbVars == <<AudioRecording, AnalysisResult, statusHist, created>>
fileVars == <<converted_path, use_path, conversions, conv_failed, tempFiles, rmFailed>>
callVars == <<callState, file_path, attempt, requests, fails, sleeps, seen, lastOutcome>>
jobVars == <<queue, request, countdowns, executions, lastExit>>

\* An AudioRecording row: status, error_message, processed_at and
\* duration_seconds (the nullable columns are "null" or "set").
Row(st, msg, processed, duration) ==
    [status |-> st, error_message |-> msg, processed_at |-> processed,
     duration_seconds |-> duration]

\* AudioRecording.objects.create(..., status='pending') of upload_recording.
NewRecording == Row("pending", NoMessage, "null", "null")

\* process_audio_recording.delay(recording.id, language=language)
Message(id, retries, countdown) ==
    [recording_id |-> id, retries |-> retries, countdown |-> countdown]

Exists(id) == id \in DOMAIN AudioRecording

\* The status a concurrent reader of the table sees.
PersistedStatus(id) == IF Exists(id) THEN AudioRecording[id].status ELSE "absent"

\* Model.save(): UPDATE the row with every field of the instance, INSERT it
\* when no row has the primary key.
Save(table, id, obj) == (id :> obj) @@ table

\* The history of the persisted status once the table becomes `table`.
HistAfter(table, id) ==
    IF id \in DOMAIN table /\ table[id].status # PersistedStatus(id)
    THEN Append(statusHist, table[id].status)
    ELSE statusHist

\* The name of the temporary file of the running execution.
TempName == request.retries

\* What a call that has not been made has returned.
NoReturn == [exc |-> "none", val |-> << >>]

\* The state after upload_recording: the row is pending and its one job is
\* queued.
JobInit ==
    /\ AudioRecording = [id \in RecordingIds |-> NewRecording]
    /\ AnalysisResult = << >>
    /\ queue = {Message(id, 0, 0) : id \in RecordingIds}
    /\ pc = "idle"
    /\ request = Message(1, 0, 0)
    /\ recording = NewRecording
    /\ exc = NoExc
    /\ converted_path = "none"
    /\ use_path = "none"
    /\ conversions = 0
    /\ conv_failed = FALSE
    /\ file_path = "none"
    /\ tempFiles = {}
    /\ rmFailed = FALSE
    /\ max_retries \in 0..MaxApiRetries
    /\ callState = "none"
    /\ attempt = 0
    /\ requests = 0
    /\ fails = 0
    /\ sleeps = 0
    /\ seen = {}
    /\ lastOutcome = NoOutcome
    /\ callLog = {}
    /\ statusHist = <<"pending">>
    /\ created = 0
    /\ countdowns = << >>
    /\ executions = 0
    /\ lastExit = "none"
    /\ deleted = FALSE

Init ==
    /\ JobInit
    /\ callee = "none"
    /\ args = << >>
    /\ called = FALSE
    /\ ret = NoReturn


(* ------------------------------------------------------------------ *)
(* process_audio_recording: what each write and decision does          *)
(* ------------------------------------------------------------------ *)

\* Mutant of ProcessingWrite: the status that is written first is completed.
ProcessingWrite_Completed(obj) == [obj EXCEPT !.status = "completed"]

\* Mutants of ProcessingWrite: the status is set only on the first run; the
\* assignment is forgotten.
ProcessingWrite_OnlyPending(obj) ==
    IF obj.status = "pending" THEN [obj EXCEPT !.status = "processing"] ELSE obj

ProcessingWrite_Forgotten(obj) == obj

\* recording.status = 'processing'
ProcessingWrite(obj) == [obj EXCEPT !.status = "processing"]

\* Mutants of CompletedWrite: the timestamp is not stamped; the message of
\* an earlier failure is cleared.
CompletedWrite_NoStamp(obj) == [obj EXCEPT !.status = "completed"]

CompletedWrite_ClearsMessage(obj) ==
    [obj EXCEPT !.status = "completed", !.processed_at = "set",
                !.error_message = NoMessage]

\* recording.status = 'completed'; recording.processed_at = timezone.now()
CompletedWrite(obj) == [obj EXCEPT !.status = "completed", !.processed_at = "set"]

\* Mutant of FailedWrite: the message of a missing file is not recorded.
FailedWrite_NotForMissingFile(obj, e) ==
    IF e.cls = "FileNotFoundError"
    THEN [obj EXCEPT !.status = "failed"]
    ELSE [obj EXCEPT !.status = "failed", !.error_message = Str(e)]

\* Mutant of FailedWrite: only the message is recorded, the status is left.
FailedWrite_MessageOnly(obj, e) == [obj EXCEPT !.error_message = Str(e)]

\* recording.status = 'failed'; recording.error_message = str(e)
FailedWrite(obj, e) == [obj EXCEPT !.status = "failed", !.error_message = Str(e)]

\* Mutant of CreateAnalysisResult: the instance is built but never saved.
CreateAnalysisResult_Unsaved(table, id) == [ok |-> TRUE, table |-> table]

\* AnalysisResult.objects.create(recording=recording, ...): recording is a
\* OneToOneField, so a second row for the same recording is an IntegrityError.
CreateAnalysisResult(table, id) ==
    IF \E i \in 1..Len(table) : table[i].recording = id
    THEN [ok |-> FALSE, table |-> table]
    ELSE [ok |-> TRUE, table |-> Append(table, [recording |-> id])]

\* "if converted_path and os.path.exists(converted_path): os.remove(...)"
\* inside try/except: a failing os.remove leaves the file and is swallowed.
RemoveConverted(files, path, name, rmOk) ==
    IF path # "none" /\ name \in files /\ rmOk THEN files \ {name} ELSE files

\* Mutant of ShouldRetry: one retry more than the budget.
ShouldRetry_OneMore(retries) == retries <= TaskMaxRetries

\* Mutant of ShouldRetry: the budget is one retry short.
ShouldRetry_OneShort(retries) == retries + 1 < TaskMaxRetries

\* self.retry(): Celery raises the original exception instead of scheduling
\* once request.retries has reached max_retries.
ShouldRetry(retries) == retries < TaskMaxRetries

\* Mutant of Countdown: the delay is computed from the retries done so far.
Countdown_FromZero(retries) == BaseDelay * retries

\* countdown=60 * (self.request.retries + 1)
Countdown(retries) == BaseDelay * (retries + 1)

(* ------------------------------------------------------------------ *)
(* process_audio_recording: the steps                                  *)
(* ------------------------------------------------------------------ *)

\* Mutant of StartExecution: the message stays with the broker and is
\* delivered again.
StartExecution_Redelivered ==
    /\ pc = "idle"
    /\ UNCHANGED pureVars
    /\ deleted' = FALSE
    /\ \E m \in queue : request' = m
    /\ pc' = "get"
    /\ recording' = NewRecording
    /\ exc' = NoExc
    /\ converted_path' = "none"
    /\ use_path' = "none"
    /\ conversions' = 0
    /\ conv_failed' = FALSE
    /\ file_path' = "none"
    /\ rmFailed' = FALSE
    /\ callState' = "none"
    /\ attempt' = 0
    /\ requests' = 0
    /\ fails' = 0
    /\ sleeps' = 0
    /\ seen' = {}
    /\ lastOutcome' = NoOutcome
    /\ executions' = executions + 1
    /\ UNCHANGED <<dbVars, tempFiles, max_retries, callLog, countdowns, lastExit, queue>>

\* A worker takes a message from the broker and enters the task.
StartExecution ==
    /\ pc = "idle"
    /\ UNCHANGED pureVars
    /\ deleted' = FALSE
    /\ \E m \in queue :
         /\ queue' = queue \ {m}
         /\ request' = m
    /\ pc' = "get"
    /\ recording' = NewRecording
    /\ exc' = NoExc
    /\ converted_path' = "none"
    /\ use_path' = "none"
    /\ conversions' = 0
    /\ conv_failed' = FALSE
    /\ file_path' = "none"
    /\ rmFailed' = FALSE
    /\ callState' = "none"
    /\ attempt' = 0
    /\ requests' = 0
    /\ fails' = 0
    /\ sleeps' = 0
    /\ seen' = {}
    /\ lastOutcome' = NoOutcome
    /\ executions' = executions + 1
    /\ UNCHANGED <<dbVars, tempFiles, max_retries, callLog, countdowns, lastExit>>

\* Mutant of GetRecording: DoesNotExist is not caught on its own and reaches
\* the general handler.
GetRecording_NoEarlyReturn ==
    /\ pc = "get"
    /\ UNCHANGED <<pureVars, deleted>>
    /\ IF Exists(request.recording_id)
       THEN /\ recording' = AudioRecording[request.recording_id]
            /\ pc' = "set_processing"
            /\ UNCHANGED exc
       ELSE /\ pc' = "handler"
            /\ exc' = Exc("DoesNotExist", Msg("matching_query_does_not_exist", 0, 0, 0, FALSE))
            /\ UNCHANGED recording
    /\ UNCHANGED <<dbVars, fileVars, callVars, jobVars, max_retries, callLog>>

\* AudioRecording.objects.get(id=recording_id); DoesNotExist: return None
\* (and the finally clause).
GetRecording ==
    /\ pc = "get"
    /\ UNCHANGED <<pureVars, deleted>>
    /\ IF Exists(request.recording_id)
       THEN /\ recording' = AudioRecording[request.recording_id]
            /\ pc' = "set_processing"
            /\ UNCHANGED lastExit
       ELSE /\ pc' = "idle"
            /\ lastExit' = "notfound"
            /\ UNCHANGED recording
    /\ UNCHANGED <<dbVars, fileVars, callVars, queue, request, countdowns,
                   executions, exc, max_retries, callLog>>

\* recording.status = 'processing'; recording.save()
SetProcessing ==
    /\ pc = "set_processing"
    /\ UNCHANGED <<pureVars, deleted>>
    /\ LET obj == ProcessingWrite(recording)
           table == Save(AudioRecording, request.recording_id, obj)
       IN /\ recording' = obj
          /\ AudioRecording' = table
          /\ statusHist' = HistAfter(table, request.recording_id)
    /\ pc' = "check_file"
    /\ UNCHANGED <<AnalysisResult, created, fileVars, callVars, jobVars, exc,
                   max_retries, callLog>>

\* audio_path = recording.audio_file.path, which raises under a storage
\* backend without local paths (SupabaseStorage defines no path()), then
\* "if not os.path.exists(audio_path): raise FileNotFoundError(...)".
CheckFile ==
    /\ pc = "check_file"
    /\ UNCHANGED <<pureVars, deleted>>
    /\ \E look \in {"exists", "missing", "no_path"} :
         CASE look = "no_path" ->
                /\ exc' = Exc("AttributeError", Msg("no_attribute_path", 0, 0, 0, FALSE))
                /\ pc' = "handler"
                /\ UNCHANGED callLog
           [] look = "missing" ->
                /\ callLog' = callLog \cup
                       {<<"file_check", PersistedStatus(request.recording_id)>>}
                /\ exc' = Exc("FileNotFoundError",
                              Msg("audio_file_not_found_at", 0, 0, 0, FALSE))
                /\ pc' = "handler"
           [] OTHER ->
                /\ callLog' = callLog \cup
                       {<<"file_check", PersistedStatus(request.recording_id)>>}
                /\ pc' = "duration"
                /\ UNCHANGED exc
    /\ UNCHANGED <<dbVars, fileVars, callVars, jobVars, recording, max_retries>>

\* librosa.get_duration in try/except: on success duration_seconds is set and
\* the instance saved, on failure only a warning is logged.
MeasureDuration ==
    /\ pc = "duration"
    /\ UNCHANGED <<pureVars, deleted>>
    /\ callLog' = callLog \cup {<<"duration", PersistedStatus(request.recording_id)>>}
    /\ \E ok \in BOOLEAN :
         IF ok
         THEN LET obj == [recording EXCEPT !.duration_seconds = "set"]
                  table == Save(AudioRecording, request.recording_id, obj)
              IN /\ recording' = obj
                 /\ AudioRecording' = table
                 /\ statusHist' = HistAfter(table, request.recording_id)
         ELSE UNCHANGED <<recording, AudioRecording, statusHist>>
    /\ pc' = "convert"
    /\ UNCHANGED <<AnalysisResult, created, fileVars, callVars, jobVars, exc,
                   max_retries>>

\* Mutant of UsePath: use_path is assigned before subprocess.run.
UsePath_BeforeRun(ffmpegOk) == "tmp"

\* use_path = audio_path; ...; subprocess.run(cmd, check=True, ...);
\* use_path = converted_path
UsePath(ffmpegOk) == IF ffmpegOk THEN "tmp" ELSE "audio"

\* The ffmpeg conversion in try/except: NamedTemporaryFile(delete=False)
\* creates the file, subprocess.run(check=True) converts into it; only after
\* a successful run use_path becomes converted_path. Whatever is raised is
\* logged as a warning.
ConvertAudio ==
    /\ pc = "convert"
    /\ UNCHANGED <<pureVars, deleted>>
    /\ callLog' = callLog \cup {<<"converter", PersistedStatus(request.recording_id)>>}
    /\ conversions' = conversions + 1
    /\ \E tmpOk \in BOOLEAN, ffmpegOk \in BOOLEAN :
         IF tmpOk
         THEN /\ tempFiles' = tempFiles \cup {TempName}
              /\ converted_path' = "tmp"
              /\ use_path' = UsePath(ffmpegOk)
              /\ conv_failed' = ~ffmpegOk
         ELSE /\ converted_path' = "none"
              /\ use_path' = "audio"
              /\ conv_failed' = TRUE
              /\ UNCHANGED tempFiles
    /\ pc' = "analyze"
    /\ UNCHANGED <<dbVars, callVars, jobVars, recording, exc, rmFailed, max_retries>>


\* analyze_audio up to the retry loop: file_path, the language code, the
\* os.path.exists test (FileNotFoundError is re-raised as it is), then the
\* first pass of "for attempt in range(1, self.max_retries + 1)"; with
\* max_retries < 1 the loop body never runs and result stays None.
AnalyzeBegin ==
    /\ pc = "analyze"
    /\ UNCHANGED <<pureVars, deleted>>
    /\ file_path' = use_path
    /\ \E exists \in BOOLEAN :
         IF ~exists
         THEN /\ exc' = OuterExcept(Exc("FileNotFoundError",
                                       Msg("audio_file_not_found", 0, 0, 0, FALSE)))
              /\ callState' = "raised"
              /\ pc' = "handler"
              /\ UNCHANGED attempt
         ELSE IF 1 <= max_retries
              THEN /\ attempt' = 1
                   /\ callState' = "running"
                   /\ pc' = "request"
                   /\ UNCHANGED exc
              ELSE /\ exc' = OuterExcept(LoopExhausted(max_retries))
                   /\ callState' = "raised"
                   /\ pc' = "handler"
                   /\ UNCHANGED attempt
    /\ UNCHANGED <<dbVars, fileVars, jobVars, recording, max_retries, callLog,
                   requests, fails, sleeps, seen, lastOutcome>>

\* One pass of the loop body: requests.post, raise_for_status, response.json,
\* and the except clause that takes what was raised. "sleep" is
\* time.sleep(self.retry_delay) and the next value of attempt, if there is one.
HttpAttempt ==
    /\ pc = "request"
    /\ UNCHANGED <<pureVars, deleted>>
    /\ callLog' = callLog \cup {<<"analysis_service", PersistedStatus(request.recording_id)>>}
    /\ \E o \in Outcomes :
         LET d == Dispatch(o, attempt, max_retries)
         IN /\ requests' = requests + 1
            /\ lastOutcome' = o
            /\ fails' = IF o.cls = "ok" THEN fails ELSE fails + 1
            /\ seen' = IF o.cls = "ok" THEN seen ELSE seen \cup {FailureClass(o)}
            /\ CASE d.next = "return" ->
                      /\ callState' = "returned"
                      /\ pc' = "create_result"
                      /\ UNCHANGED <<exc, attempt, sleeps>>
                 [] d.next = "raise" ->
                      /\ exc' = OuterExcept(d.exc)
                      /\ callState' = "raised"
                      /\ pc' = "handler"
                      /\ UNCHANGED <<attempt, sleeps>>
                 [] OTHER ->
                      /\ sleeps' = sleeps + 1
                      /\ IF attempt < max_retries
                         THEN /\ attempt' = attempt + 1
                              /\ UNCHANGED <<pc, exc, callState>>
                         ELSE /\ exc' = OuterExcept(LoopExhausted(max_retries))
                              /\ callState' = "raised"
                              /\ pc' = "handler"
                              /\ UNCHANGED attempt
    /\ UNCHANGED <<dbVars, fileVars, jobVars, recording, max_retries, file_path>>

\* AnalysisResult.objects.create(...): the row refers to the AudioRecording
\* row, so without that row the insert is an IntegrityError as well.
CreateResult ==
    /\ pc = "create_result"
    /\ UNCHANGED <<pureVars, deleted>>
    /\ LET r == CreateAnalysisResult(AnalysisResult, request.recording_id)
       IN IF r.ok /\ Exists(request.recording_id)
          THEN /\ AnalysisResult' = r.table
               /\ created' = created + (Len(r.table) - Len(AnalysisResult))
               /\ pc' = "mark_completed"
               /\ UNCHANGED exc
          ELSE /\ exc' = Exc("IntegrityError", Msg("duplicate_key", 0, 0, 0, FALSE))
               /\ pc' = "handler"
               /\ UNCHANGED <<AnalysisResult, created>>
    /\ UNCHANGED <<AudioRecording, statusHist, fileVars, callVars, jobVars,
                   recording, max_retries, callLog>>

\* recording.status = 'completed'; processed_at = now(); recording.save()
MarkCompleted ==
    /\ pc = "mark_completed"
    /\ UNCHANGED <<pureVars, deleted>>
    /\ LET obj == CompletedWrite(recording)
           table == Save(AudioRecording, request.recording_id, obj)
       IN /\ recording' = obj
          /\ AudioRecording' = table
          /\ statusHist' = HistAfter(table, request.recording_id)
    /\ pc' = "cleanup"
    /\ UNCHANGED <<AnalysisResult, created, fileVars, callVars, jobVars, exc,
                   max_retries, callLog>>

\* The removal of the converted file, the return of the result and the
\* finally clause.
CleanupSuccess ==
    /\ pc = "cleanup"
    /\ UNCHANGED <<pureVars, deleted>>
    /\ \E rmOk \in BOOLEAN :
         /\ tempFiles' = RemoveConverted(tempFiles, converted_path, TempName, rmOk)
         /\ rmFailed' = (converted_path # "none" /\ TempName \in tempFiles /\ ~rmOk)
    /\ pc' = "idle"
    /\ lastExit' = "success"
    /\ UNCHANGED <<dbVars, callVars, queue, request, countdowns, executions,
                   recording, exc, converted_path, use_path, conversions,
                   conv_failed, max_retries, callLog>>

\* except Exception as e: the row is read again and written failed with
\* str(e); the bare "except: pass" swallows a missing row.
HandlerWrite ==
    /\ pc = "handler"
    /\ UNCHANGED <<pureVars, deleted>>
    /\ IF Exists(request.recording_id)
       THEN LET obj == FailedWrite(AudioRecording[request.recording_id], exc)
                table == Save(AudioRecording, request.recording_id, obj)
            IN /\ recording' = obj
               /\ AudioRecording' = table
               /\ statusHist' = HistAfter(table, request.recording_id)
       ELSE UNCHANGED <<recording, AudioRecording, statusHist>>
    /\ pc' = "retry"
    /\ UNCHANGED <<AnalysisResult, created, fileVars, callVars, jobVars, exc,
                   max_retries, callLog>>

\* raise self.retry(exc=e, countdown=60 * (self.request.retries + 1)) and the
\* finally clause: a new message with retries + 1, or the exception itself
\* once the retries are used up.
RetryOrRaise ==
    /\ pc = "retry"
    /\ UNCHANGED <<pureVars, deleted>>
    /\ IF ShouldRetry(request.retries)
       THEN /\ queue' = queue \cup {Message(request.recording_id, request.retries + 1,
                                            Countdown(request.retries))}
            /\ countdowns' = Append(countdowns, Countdown(request.retries))
            /\ lastExit' = "retry"
       ELSE /\ lastExit' = "terminal"
            /\ UNCHANGED <<queue, countdowns>>
    /\ pc' = "idle"
    /\ UNCHANGED <<dbVars, fileVars, callVars, request, executions, recording,
                   exc, max_retries, callLog>>

Next ==
    \/ StartExecution
    \/ GetRecording
    \/ SetProcessing
    \/ CheckFile
    \/ MeasureDuration
    \/ ConvertAudio
    \/ AnalyzeBegin
    \/ HttpAttempt
    \/ CreateResult
    \/ MarkCompleted
    \/ CleanupSuccess
    \/ HandlerWrite
    \/ RetryOrRaise

Spec == Init /\ [][Next]_vars


(* ------------------------------------------------------------------ *)
(* Deletion of a recording while its job is queued or running          *)
(* ------------------------------------------------------------------ *)

\* The rows of result table `table` that do not belong to recording id.
WithoutRecording(table, id) == SelectSeq(table, LAMBDA r : r.recording # id)

\* delete_recording: get_object_or_404 and rec.delete(), which removes the
\* row and, by on_delete=CASCADE, its AnalysisResult; a missing row is a 404
\* and changes nothing.
DeleteRecording ==
    /\ \E id \in RecordingIds :
         /\ Exists(id)
         /\ AudioRecording' = [i \in DOMAIN AudioRecording \ {id} |-> AudioRecording[i]]
         /\ AnalysisResult' = WithoutRecording(AnalysisResult, id)
    /\ deleted' = (pc # "idle")
    /\ UNCHANGED <<statusHist, created, fileVars, callVars, jobVars, pc, recording,
                   exc, max_retries, callLog, pureVars>>

NextDelete ==
    \/ Next
    \/ DeleteRecording

\* The analysis service is called once per execution here: what is looked at
\* is the deletion, not the retry loop of the client.
InitDelete == Init /\ max_retries = 1

\* The job of a recording its owner may delete at any moment.
SpecDelete == InitDelete /\ [][NextDelete]_vars


(* ------------------------------------------------------------------ *)
(* Python values and strings as the normalizer meets them              *)
(* ------------------------------------------------------------------ *)

\* A value in a scalar position of the parsed JSON response. t is its kind:
\* "missing" (the key is absent), "null" (None), "num" (a finite number of n
\* tenths), "inf", "ninf", "nan" (the floats that are not finite), "big" (an
\* integer beyond the range of float), "str" (a string of the characters c)
\* and "obj" (a list or a mapping of n entries).
Value(t, n, c) == [t |-> t, n |-> n, c |-> c]

Missing == Value("missing", 0, << >>)
None == Value("null", 0, << >>)
Num(n) == Value("num", n, << >>)
Inf == Value("inf", 0, << >>)
NInf == Value("ninf", 0, << >>)
NaN == Value("nan", 0, << >>)
Big == Value("big", 0, << >>)
Text(c) == Value("str", 0, c)
Obj(n) == Value("obj", n, << >>)

FloatKinds == {"num", "inf", "ninf", "nan"}

\* What a call brought: the class of the exception it raised ("none" when it
\* returned) and the value it returned.
Returned(v) == [exc |-> "none", val |-> v]
Raised(e) == [exc |-> e, val |-> << >>]

\* The first result of a sequence of results that raised, evaluated left to
\* right as Python evaluates the entries of a dict display.
FirstRaised(rs) ==
    LET bad == {i \in 1..Len(rs) : rs[i].exc # "none"}
    IN  IF bad = {} THEN "none"
        ELSE rs[CHOOSE i \in bad : \A j \in bad : i <= j].exc

\* F(v), with v computed once however often F looks at it.
Let(v, F(_)) == CHOOSE r \in {F(x) : x \in {v}} : TRUE

\* dict.get(key, default)
Get(d, key, default) == IF d[key].t = "missing" THEN default ELSE d[key]

\* bool(value)
Truthy(v) ==
    CASE v.t \in {"missing", "null"} -> FALSE
      [] v.t = "num" -> v.n # 0
      [] v.t = "str" -> v.c # << >>
      [] v.t = "obj" -> v.n # 0
      [] OTHER -> TRUE

Whitespace == {" ", "\t", "\n"}

\* str.strip(): what lies between the first and the last character that is
\* not whitespace.
Strip(s) ==
    LET solid == {i \in 1..Len(s) : s[i] \notin Whitespace}
    IN  IF solid = {} THEN << >>
        ELSE SubSeq(s, CHOOSE i \in solid : \A j \in solid : i <= j,
                       CHOOSE i \in solid : \A j \in solid : j <= i)

UpperCase ==
    <<"A", "B", "C", "D", "E", "F", "G", "H", "I", "J", "K", "L", "M",
      "N", "O", "P", "Q", "R", "S", "T", "U", "V", "W", "X", "Y", "Z">>

LowerCase ==
    <<"a", "b", "c", "d", "e", "f", "g", "h", "i", "j", "k", "l", "m",
      "n", "o", "p", "q", "r", "s", "t", "u", "v", "w", "x", "y", "z">>

LowerChar(ch) ==
    IF \E i \in DOMAIN UpperCase : UpperCase[i] = ch
    THEN LowerCase[CHOOSE i \in DOMAIN UpperCase : UpperCase[i] = ch]
    ELSE ch

\* str.lower()
Lower(s) == [i \in 1..Len(s) |-> LowerChar(s[i])]

\* s.startswith(prefix)
StartsWith(s, prefix) ==
    Len(prefix) <= Len(s) /\ SubSeq(s, 1, Len(prefix)) = prefix

\* s[:3]
FirstThree(s) == SubSeq(s, 1, Min(3, Len(s)))

\* str(value): a string is itself and None is "None"; the rendering of any
\* other value is a non-blank text whose characters are not looked at.
StrOf(v) ==
    CASE v.t = "str" -> v.c
      [] v.t = "null" -> <<"N", "o", "n", "e">>
      [] OTHER -> <<"<", v.t, ">">>

Digits == <<"0", "1", "2", "3", "4", "5", "6", "7", "8", "9">>

IsDigit(ch) == \E i \in DOMAIN Digits : Digits[i] = ch

DigitValue(ch) == (CHOOSE i \in DOMAIN Digits : Digits[i] = ch) - 1

\* The number a sequence of digits writes.
Decimal(ds) ==
    LET upTo[k \in 0..Len(ds)] ==
            IF k = 0 THEN 0 ELSE 10 * upTo[k - 1] + DigitValue(ds[k])
    IN  upTo[Len(ds)]

\* float(text) for the decimal notations: surrounding whitespace, a sign,
\* digits with at most one point, "nan", "inf" and "infinity" in any case.
\* The value is kept in tenths, so of the digits after the point the first
\* counts; exponents and underscores are notations no string here uses.
ParseFloat(c) ==
    Let(Strip(c), LAMBDA s :
    Let(IF s # << >> /\ s[1] \in {"+", "-"} THEN Tail(s) ELSE s, LAMBDA body :
        LET sign == IF s # << >> /\ s[1] = "-" THEN -1 ELSE 1
            word == Lower(body)
            dots == {i \in 1..Len(body) : body[i] = "."}
            dot == IF dots = {} THEN Len(body) + 1 ELSE CHOOSE i \in dots : TRUE
            whole == SubSeq(body, 1, dot - 1)
            frac == SubSeq(body, dot + 1, Len(body))
            tenth == IF frac = << >> THEN 0 ELSE DigitValue(frac[1])
        IN  CASE word = <<"n", "a", "n">> -> Returned(NaN)
              [] word \in {<<"i", "n", "f">>,
                           <<"i", "n", "f", "i", "n", "i", "t", "y">>} ->
                    Returned(IF sign = -1 THEN NInf ELSE Inf)
              [] /\ Cardinality(dots) <= 1
                 /\ \A i \in 1..Len(body) : i \in dots \/ IsDigit(body[i])
                 /\ Len(whole) + Len(frac) >= 1 ->
                    Returned(Num(sign * (10 * Decimal(whole) + tenth)))
              [] OTHER -> Raised("ValueError")))

\* float(value)
PyFloat(v) ==
    CASE v.t \in FloatKinds -> Returned(v)
      [] v.t = "big" -> Raised("OverflowError")
      [] v.t = "str" -> ParseFloat(v.c)
      [] OTHER -> Raised("TypeError")

\* -x, x + y and x - y of floats
FNeg(a) ==
    CASE a.t = "num" -> Num(-a.n)
      [] a.t = "inf" -> NInf
      [] a.t = "ninf" -> Inf
      [] OTHER -> NaN

FAdd(a, b) ==
    CASE a.t = "nan" \/ b.t = "nan" -> NaN
      [] {a.t, b.t} = {"inf", "ninf"} -> NaN
      [] a.t = "inf" \/ b.t = "inf" -> Inf
      [] a.t = "ninf" \/ b.t = "ninf" -> NInf
      [] OTHER -> Num(a.n + b.n)

FSub(a, b) == FAdd(a, FNeg(b))

\* The operator - on two values of the response: numbers are subtracted, an
\* operand that is a string, None, a list or a mapping is a TypeError. An
\* integer beyond the range of float stays one against integers and raises
\* OverflowError against a float that is not finite.
PySub(a, b) ==
    CASE a.t \in FloatKinds /\ b.t \in FloatKinds -> Returned(FSub(a, b))
      [] {a.t, b.t} \subseteq {"num", "big"} -> Returned(Big)
      [] {a.t, b.t} \subseteq FloatKinds \cup {"big"} -> Raised("OverflowError")
      [] OTHER -> Raised("TypeError")

\* StutterDetector._safe_float(value, default)
SafeFloat(value, default) ==
    IF value.t = "null" THEN Returned(default)
    ELSE Let(PyFloat(value), LAMBDA r :
             IF r.exc \in {"TypeError", "ValueError"} THEN Returned(default) ELSE r)

\* _to_float(x, default) of process_audio_recording
ToFloat(x, default) ==
    Let(PyFloat(x), LAMBDA r : IF r.exc # "none" THEN Returned(default) ELSE r)

(* ------------------------------------------------------------------ *)
(* StutterDetector: the normalization of the raw response              *)
(* ------------------------------------------------------------------ *)

EventKeys ==
    {"type", "event_type", "start", "start_time", "end", "end_time",
     "duration", "confidence", "probability", "text"}

\* One entry of stutter_timestamps. shape is "dict" (a mapping, f its
\* values by key), "list" (a list or a tuple, items its elements) or
\* "scalar" (a string, a number or None, kept as the one item).
Event(shape, f, items) == [shape |-> shape, f |-> f, items |-> items]

NoFields == [k \in EventKeys |-> Missing]

\* The mapping with the given time bounds, duration and type and no other key.
DictEvent(start, end, start_time, end_time, duration, type) ==
    Event("dict",
          [NoFields EXCEPT !["start"] = start, !["end"] = end,
                           !["start_time"] = start_time, !["end_time"] = end_time,
                           !["duration"] = duration, !["type"] = type],
          << >>)

ListEvent(items) == Event("list", NoFields, items)

ScalarEvent(v) == Event("scalar", NoFields, <<v>>)

Dysfluency == <<"d", "y", "s", "f", "l", "u", "e", "n", "c", "y">>

\* A record of the canonical list.
Canonical(type, start, end, duration, confidence, text) ==
    [type |-> type, start |-> start, end |-> end, duration |-> duration,
     confidence |-> confidence, text |-> text]

NoRecord == Canonical(<< >>, Num(0), Num(0), Num(0), Num(0), << >>)

\* What one pass of the loop of _format_timestamps does with evt: raise,
\* append rec (keep) or skip the entry with a warning.
Formatted(e, keep, rec) == [exc |-> e, keep |-> keep, rec |-> rec]

\* The mapping branch. The default of evt.get('duration', ...) is computed
\* before the lookup, from the raw 'end' and 'start' entries.
FormatDictEvent(f) ==
    Let([type |-> StrOf(Get(f, "type", Get(f, "event_type", Text(Dysfluency)))),
         start |-> SafeFloat(Get(f, "start", Get(f, "start_time", Num(0))), Num(0)),
         end |-> SafeFloat(Get(f, "end", Get(f, "end_time", Num(0))), Num(0)),
         span |-> PySub(Get(f, "end", Num(0)), Get(f, "start", Num(0))),
         confidence |->
             SafeFloat(Get(f, "confidence", Get(f, "probability", Num(5))), Num(0)),
         text |-> StrOf(Get(f, "text", Text(<< >>)))],
        LAMBDA e :
    Let(IF e.span.exc # "none" THEN e.span
        ELSE SafeFloat(Get(f, "duration", e.span.val), Num(0)),
        LAMBDA duration :
    Let(FirstRaised(<<e.start, e.end, duration, e.confidence>>), LAMBDA raised :
        IF raised # "none" THEN Formatted(raised, FALSE, NoRecord)
        ELSE Formatted("none", TRUE,
                       Canonical(e.type, e.start.val, e.end.val, duration.val,
                                 e.confidence.val, e.text)))))

\* The list and tuple branch, taken by every sequence of two or more items.
FormatListEvent(items) ==
    Let([start |-> SafeFloat(items[1], Num(0)),
         end |-> SafeFloat(items[2], Num(0)),
         type |-> IF Len(items) > 2 THEN StrOf(items[3]) ELSE Dysfluency],
        LAMBDA e :
    Let(FirstRaised(<<e.start, e.end>>), LAMBDA raised :
        IF raised # "none" THEN Formatted(raised, FALSE, NoRecord)
        ELSE Formatted("none", TRUE,
                       Canonical(e.type, e.start.val, e.end.val,
                                 FSub(e.end.val, e.start.val), Num(5), << >>))))

FormatEvent(evt) ==
    CASE evt.shape = "dict" -> FormatDictEvent(evt.f)
      [] evt.shape = "list" /\ Len(evt.items) >= 2 -> FormatListEvent(evt.items)
      [] OTHER -> Formatted("none", FALSE, NoRecord)

\* The loop over the entries: the first entry that raises ends it, the
\* records of the others are appended in the order of the entries.
FormatEvents(evts) ==
    Let([i \in 1..Len(evts) |-> FormatEvent(evts[i])], LAMBDA passes :
    Let(FirstRaised(passes), LAMBDA raised :
    Let(SelectSeq(passes, LAMBDA p : p.keep), LAMBDA kept :
        IF raised # "none" THEN Raised(raised)
        ELSE Returned([i \in 1..Len(kept) |-> kept[i].rec]))))

\* The value under 'stutter_timestamps': its kind t ("missing", "null",
\* "list", "num", "str", "dict"), n its length (the number itself for a
\* number) and, for a list, its entries.
Timestamps(t, n, events) == [t |-> t, n |-> n, events |-> events]

TimestampList(evts) == Timestamps("list", Len(evts), evts)

\* StutterDetector._format_timestamps(raw_timestamps): a falsy value gives
\* the empty list; a string or a mapping is iterated as its characters or
\* keys, none of which is an event; a number is not iterable.
FormatTimestamps(raw) ==
    IF raw.t \in {"missing", "null"} \/ raw.n = 0 THEN Returned(<< >>)
    ELSE CASE raw.t = "list" -> FormatEvents(raw.events)
           [] raw.t \in {"str", "dict"} -> Returned(<< >>)
           [] OTHER -> Raised("TypeError")

\* sum(evt.get('end', 0) - evt.get('start', 0) for evt in formatted_timestamps)
SumOfSpans(recs) ==
    LET upTo[k \in 0..Len(recs)] ==
            IF k = 0 THEN Num(0)
            ELSE FAdd(upTo[k - 1], FSub(recs[k].end, recs[k].start))
    IN  upTo[Len(recs)]

\* StutterDetector._format_result(api_result, proper_transcript, lang_code,
\* analysis_duration), without the measured time of the call.
FormatResult(api_result, proper_transcript, lang_code) ==
    Let(FormatTimestamps(IF api_result.stutter_timestamps.t # "missing"
                         THEN api_result.stutter_timestamps
                         ELSE TimestampList(<< >>)),
        LAMBDA formatted :
    IF formatted.exc # "none" THEN Raised(formatted.exc)
    ELSE
    Let(Get(api_result, "total_stutter_duration", None), LAMBDA given :
    Let([actual |-> Strip(StrOf(Get(api_result, "actual_transcript", Text(<< >>)))),
         target |-> Strip(StrOf(Get(api_result, "target_transcript", Text(<< >>)))),
         mismatch |-> SafeFloat(Get(api_result, "mismatch_percentage", Num(0)), Num(0)),
         ctc |-> SafeFloat(Get(api_result, "ctc_loss_score", Num(0)), Num(0)),
         total |-> SafeFloat(IF given.t = "null" THEN SumOfSpans(formatted.val)
                             ELSE given, Num(0)),
         frequency |-> SafeFloat(Get(api_result, "stutter_frequency", Num(0)), Num(0)),
         confidence |-> SafeFloat(Get(api_result, "confidence_score", Num(0)), Num(0))],
        LAMBDA e :
    Let(FirstRaised(<<e.mismatch, e.ctc, e.total, e.frequency, e.confidence>>),
        LAMBDA raised :
        IF raised # "none" THEN Raised(raised)
        ELSE Returned(
            [actual_transcript |-> e.actual,
             target_transcript |->
                 IF e.target = << >> /\ proper_transcript # << >>
                 THEN Strip(proper_transcript) ELSE e.target,
             mismatched_chars |-> Get(api_result, "mismatched_chars", Obj(0)),
             mismatch_percentage |-> e.mismatch.val,
             ctc_loss_score |-> e.ctc.val,
             stutter_timestamps |-> formatted.val,
             total_stutter_duration |-> e.total.val,
             stutter_frequency |-> e.frequency.val,
             severity |-> Lower(StrOf(Get(api_result, "severity", Text(<<"n", "o", "n", "e">>)))),
             confidence_score |-> e.confidence.val,
             model_version |-> StrOf(Get(api_result, "model_version",
                                         Text(<<"e", "x", "t", "e", "r", "n", "a", "l", "-", "a", "p", "i", "-", "v", "1">>))),
             language_detected |-> lang_code])))))

(* ------------------------------------------------------------------ *)
(* StutterDetector: the language code                                  *)
(* ------------------------------------------------------------------ *)

INDIAN_LANGUAGE_CODES == <<
    << <<"h", "i", "n", "d", "i">>, <<"h", "i", "n">> >>,
    << <<"t", "a", "m", "i", "l">>, <<"t", "a", "m">> >>,
    << <<"t", "e", "l", "u", "g", "u">>, <<"t", "e", "l">> >>,
    << <<"b", "e", "n", "g", "a", "l", "i">>, <<"b", "e", "n">> >>,
    << <<"m", "a", "r", "a", "t", "h", "i">>, <<"m", "a", "r">> >>,
    << <<"g", "u", "j", "a", "r", "a", "t", "i">>, <<"g", "u", "j">> >>,
    << <<"k", "a", "n", "n", "a", "d", "a">>, <<"k", "a", "n">> >>,
    << <<"m", "a", "l", "a", "y", "a", "l", "a", "m">>, <<"m", "a", "l">> >>,
    << <<"p", "u", "n", "j", "a", "b", "i">>, <<"p", "a", "n">> >>,
    << <<"u", "r", "d", "u">>, <<"u", "r", "d">> >>,
    << <<"a", "s", "s", "a", "m", "e", "s", "e">>, <<"a", "s", "m">> >>,
    << <<"o", "d", "i", "a">>, <<"o", "r", "y">> >>,
    << <<"o", "r", "i", "y", "a">>, <<"o", "r", "y">> >>,
    << <<"b", "h", "o", "j", "p", "u", "r", "i">>, <<"b", "h", "o">> >>,
    << <<"m", "a", "i", "t", "h", "i", "l", "i">>, <<"m", "a", "i">> >>,
    << <<"s", "a", "n", "s", "k", "r", "i", "t">>, <<"s", "a", "n">> >>,
    << <<"k", "o", "n", "k", "a", "n", "i">>, <<"k", "o", "k">> >>,
    << <<"d", "o", "g", "r", "i">>, <<"d", "o", "i">> >>,
    << <<"k", "a", "s", "h", "m", "i", "r", "i">>, <<"k", "a", "s">> >>,
    << <<"s", "i", "n", "d", "h", "i">>, <<"s", "n", "d">> >>,
    << <<"n", "e", "p", "a", "l", "i">>, <<"n", "e", "p">> >>,
    << <<"b", "o", "d", "o">>, <<"b", "r", "x">> >>,
    << <<"s", "a", "n", "t", "a", "l", "i">>, <<"s", "a", "t">> >>,
    << <<"m", "a", "n", "i", "p", "u", "r", "i">>, <<"m", "n", "i">> >>,
    << <<"e", "n", "g", "l", "i", "s", "h">>, <<"e", "n", "g">> >>,
    << <<"h", "i", "n">>, <<"h", "i", "n">> >>,
    << <<"t", "a", "m">>, <<"t", "a", "m">> >>,
    << <<"t", "e", "l">>, <<"t", "e", "l">> >>,
    << <<"b", "e", "n">>, <<"b", "e", "n">> >>,
    << <<"m", "a", "r">>, <<"m", "a", "r">> >>,
    << <<"g", "u", "j">>, <<"g", "u", "j">> >>,
    << <<"k", "a", "n">>, <<"k", "a", "n">> >>,
    << <<"m", "a", "l">>, <<"m", "a", "l">> >>,
    << <<"p", "a", "n">>, <<"p", "a", "n">> >>,
    << <<"u", "r", "d">>, <<"u", "r", "d">> >>,
    << <<"e", "n", "g">>, <<"e", "n", "g">> >>,
    << <<"a", "s", "m">>, <<"a", "s", "m">> >>,
    << <<"o", "r", "y">>, <<"o", "r", "y">> >>
>>

Hin == <<"h", "i", "n">>

\* INDIAN_LANGUAGE_CODES.get(key, default)
CodeOf(key, default) ==
    IF \E i \in DOMAIN INDIAN_LANGUAGE_CODES : INDIAN_LANGUAGE_CODES[i][1] = key
    THEN INDIAN_LANGUAGE_CODES[CHOOSE i \in DOMAIN INDIAN_LANGUAGE_CODES :
                                   INDIAN_LANGUAGE_CODES[i][1] = key][2]
    ELSE default

\* The entries the loop over INDIAN_LANGUAGE_CODES.items() accepts.
FuzzyMatches(lang_lower) ==
    {i \in DOMAIN INDIAN_LANGUAGE_CODES :
        \/ StartsWith(lang_lower, FirstThree(INDIAN_LANGUAGE_CODES[i][1]))
        \/ StartsWith(INDIAN_LANGUAGE_CODES[i][1], FirstThree(lang_lower))}

\* StutterDetector._resolve_language(language) of a detector whose
\* default_language is the given one; a value without lower() is an
\* AttributeError.
ResolveLanguage(language, default_language) ==
    IF ~Truthy(language) THEN Returned(CodeOf(default_language, Hin))
    ELSE IF language.t # "str" THEN Raised("AttributeError")
    ELSE Let(Strip(Lower(language.c)), LAMBDA lang_lower :
         Let(FuzzyMatches(lang_lower), LAMBDA matches :
             IF lang_lower = <<"a", "u", "t", "o">>
             THEN Returned(CodeOf(default_language, Hin))
             ELSE IF CodeOf(lang_lower, << >>) # << >>
                  THEN Returned(CodeOf(lang_lower, << >>))
             ELSE IF matches # {}
                  THEN Returned(INDIAN_LANGUAGE_CODES[
                                    CHOOSE i \in matches :
                                        \A j \in matches : i <= j][2])
             ELSE Returned(Hin)))

(* ------------------------------------------------------------------ *)
(* The normalizer, the coercions and the resolver applied on their own *)
(* ------------------------------------------------------------------ *)

\* The sequences over S of at most n entries.
SeqsUpTo(S, n) == UNION {[1..k -> S] : k \in 0..n}

StartInputs == {Missing, Num(10), Text(<<"0", ".", "5">>), None}
EndInputs == {Missing, Num(30), Text(<<"1", ".", "0">>)}

\* Mappings with their bounds under start/end, with or without an explicit
\* duration; the same under start_time/end_time; mixed and typed ones.
DictEvents ==
    {DictEvent(s, e, Missing, Missing, d, Missing) :
        s \in StartInputs, e \in EndInputs, d \in {Missing, Num(70)}}
    \cup {DictEvent(Missing, Missing, Num(20), Num(50), d, Missing) :
             d \in {Missing, Num(70)}}
    \cup {DictEvent(Num(10), Missing, Missing, Num(50), Missing, Missing),
          DictEvent(Num(10), Num(30), Num(20), Num(50), Missing,
                    Text(<<"b", "l", "o", "c", "k">>))}

ListEvents ==
    {ListEvent(<< >>),
     ListEvent(<<Num(10)>>),
     ListEvent(<<Num(10), Num(30)>>),
     ListEvent(<<Text(<<"0", ".", "5">>), Text(<<"x">>)>>),
     ListEvent(<<None, Num(30)>>),
     ListEvent(<<Num(10), Num(30), Text(<<"b", "l", "o", "c", "k">>)>>),
     ListEvent(<<Num(10), Num(30), Text(<<"b", "l", "o", "c", "k">>), Num(9)>>)}

ScalarEvents == {ScalarEvent(Text(<<"a", "b">>)), ScalarEvent(Num(10)), ScalarEvent(None)}

EventInputs == DictEvents \cup ListEvents \cup ScalarEvents

TimestampInputs ==
    {TimestampList(q) : q \in SeqsUpTo(EventInputs, MaxEvents)}
    \cup {Timestamps("null", 0, << >>), Timestamps("num", 0, << >>),
          Timestamps("num", 5, << >>), Timestamps("str", 2, << >>),
          Timestamps("dict", 1, << >>)}

ResultEvents ==
    {DictEvent(Num(10), Num(30), Missing, Missing, Missing, Missing),
     DictEvent(Num(10), Num(30), Missing, Missing, Num(70), Missing),
     DictEvent(Missing, Missing, Num(20), Num(50), Missing, Missing),
     DictEvent(Text(<<"0", ".", "5">>), Num(30), Missing, Missing, Missing, Missing),
     ListEvent(<<Num(10), Num(30)>>),
     ScalarEvent(None)}

\* The raw responses: the event list, the total, the two transcripts and one
\* score vary over every kind of value, the other entries are fixed.
ResponseInputs ==
    [stutter_timestamps :
         {TimestampList(q) : q \in SeqsUpTo(ResultEvents, MaxEvents)}
         \cup {Timestamps("missing", 0, << >>), Timestamps("null", 0, << >>),
               Timestamps("num", 5, << >>)},
     total_stutter_duration : {Missing, None, Num(40), Text(<<"a", "b", "c">>), Big},
     actual_transcript : {Missing, None, Text(<<" ", "b", " ">>)},
     target_transcript :
         {Missing, None, Text(<< >>), Text(<<" ", " ">>), Text(<<" ", "a", " ">>)},
     confidence_score : {Missing, Num(8), Obj(1), Big},
     mismatch_percentage : {Text(<<"1", "2", ".", "5">>)},
     ctc_loss_score : {Missing},
     stutter_frequency : {None},
     severity : {Text(<<"M", "i", "l", "d">>)},
     model_version : {Missing},
     mismatched_chars : {Obj(2)}]

TranscriptInputs == {<< >>, <<" ", " ">>, <<" ", "c", " ">>}

ScalarInputs ==
    {None, Num(0), Num(15), Num(-20), Inf, NaN, Big, Obj(0), Obj(2),
     Text(<< >>), Text(<<"a", "b", "c">>), Text(<<" ", "1", ".", "5", " ">>),
     Text(<<"7">>), Text(<<"1", ".", "2", ".", "3">>), Text(<<"n", "a", "n">>),
     Text(<<"i", "n", "f">>)}

LanguageInputs ==
    {None, Num(5),
     Text(<<>>),
     Text(<<" ", " ">>),
     Text(<<"a", "u", "t", "o">>),
     Text(<<" ", "A", "U", "T", "O", " ">>),
     Text(<<"H", "i", "n", "d", "i">>),
     Text(<<"h", "i", "n">>),
     Text(<<" ", "T", "A", "M", "I", "L", " ">>),
     Text(<<"t", "a", "m", "i", "l">>),
     Text(<<"O", "d", "i", "a">>),
     Text(<<"k", "a", "s">>),
     Text(<<"e">>),
     Text(<<"e", "n">>),
     Text(<<"t", "a">>),
     Text(<<"z", "z">>),
     Text(<<"x", "y", "z">>),
     Text(<<"k", "l", "i", "n", "g", "o", "n">>),
     Text(<<"f", "r", "e", "n", "c", "h">>),
     Text(<<"h", "i", "n", "d", "u", "s", "t", "a", "n", "i">>),
     Text(<<"e", "n", "g", "l">>)}

DefaultLanguages == {<<"h", "i", "n", "d", "i">>, <<"e", "n", "g", "l", "i", "s", "h">>, <<"t", "a", "m", "i", "l">>, <<"k", "l", "i", "n", "g", "o", "n">>}

\* The keyword arguments of AnalysisResult.objects.create, taken from the
\* dictionary analyze_audio returned: str() of the severity and the model
\* version, _to_float of the numbers. create() saves the row without
\* full_clean(), so neither the validators nor the choices are looked at.
CreateFields(analysis_data) ==
    [severity |-> analysis_data.severity,
     mismatch_percentage |-> ToFloat(analysis_data.mismatch_percentage, Num(0)).val,
     ctc_loss_score |-> ToFloat(analysis_data.ctc_loss_score, Num(0)).val,
     total_stutter_duration |-> ToFloat(analysis_data.total_stutter_duration, Num(0)).val,
     stutter_frequency |-> ToFloat(analysis_data.stutter_frequency, Num(0)).val,
     confidence_score |-> ToFloat(analysis_data.confidence_score, Num(0)).val,
     model_version |-> analysis_data.model_version]

\* The row process_audio_recording inserts for the response api_result of
\* the service: _format_result, then the arguments of create(). What
\* _format_result raises leaves no row.
PersistedResult(api_result) ==
    Let(FormatResult(api_result, << >>, Hin), LAMBDA data :
        IF data.exc # "none" THEN Raised(data.exc)
        ELSE Returned(CreateFields(data.val)))

\* A response with the three entries given and nothing else.
ScoredResponse(severity, mismatch_percentage, confidence_score) ==
    [stutter_timestamps |-> Timestamps("missing", 0, << >>),
     total_stutter_duration |-> Missing,
     actual_transcript |-> Missing,
     target_transcript |-> Missing,
     confidence_score |-> confidence_score,
     mismatch_percentage |-> mismatch_percentage,
     ctc_loss_score |-> Missing,
     stutter_frequency |-> Missing,
     severity |-> severity,
     model_version |-> Missing,
     mismatched_chars |-> Missing]

\* Severities, mismatch percentages and confidences a service can answer
\* (numbers in tenths): absent, in range, out of range, not a number.
SeverityInputs ==
    {Missing, None, Text(<<"n", "o", "n", "e">>), Text(<<"M", "i", "l", "d">>), Text(<<"S", "E", "V", "E", "R", "E">>), Text(<<"e", "x", "t", "r", "e", "m", "e">>)}
MismatchInputs == {Missing, Num(125), Num(1000), Num(1500), Num(-10), Text(<<"n", "a", "n">>)}
ConfidenceInputs == {Missing, Num(0), Num(8), Num(10), Num(70), None}

PersistInputs ==
    {ScoredResponse(s, m, c) :
        s \in SeverityInputs, m \in MismatchInputs, c \in ConfidenceInputs}

\* What requests.get of the health endpoint brings: a response with a status
\* and a text that is empty, JSON, or something else; or an exception.
HealthStatuses == {200, 204, 404, 500, 503}
HealthBodies == {"empty", "json", "text"}
HealthAnswers ==
    [cls : {"response"}, status : HealthStatuses, body : HealthBodies]
    \cup [cls : {"timeout", "connect", "other"}, status : {0}, body : {"empty"}]

\* "response.json() if response.text else {}": json() raises JSONDecodeError
\* on a text that is not JSON.
HealthDetails(body) ==
    CASE body = "empty" -> Returned("empty_dict")
      [] body = "json" -> Returned("parsed")
      [] OTHER -> Raised("JSONDecodeError")

\* The dictionary check_api_health returns (status_code 0 stands for None).
Health(healthy, status_code, message) ==
    [healthy |-> healthy, status_code |-> status_code, message |-> message]

\* check_api_health: requests.get, the status test, and the three except
\* clauses; the details of a 200 answer are built inside the try block, so
\* what json() raises is taken by "except Exception".
CheckApiHealth(answer) ==
    CASE answer.cls = "timeout" -> Returned(Health(FALSE, 0, "Health check timed out"))
      [] answer.cls = "connect" -> Returned(Health(FALSE, 0, "Failed to connect to API"))
      [] answer.cls = "other" -> Returned(Health(FALSE, 0, "Health check failed"))
      [] OTHER ->
           IF answer.status = 200
           THEN IF HealthDetails(answer.body).exc = "none"
                THEN Returned(Health(TRUE, 200, "API is healthy and accessible"))
                ELSE Returned(Health(FALSE, 0, "Health check failed"))
           ELSE Returned(Health(FALSE, answer.status, "API returned status"))

taskVars ==
    <<dbVars, fileVars, callVars, jobVars, pc, recording, exc, max_retries,
      callLog, deleted>>

\* One of the seven functions is about to be applied to arguments drawn from
\* the inputs above; no job runs.
InitPure ==
    /\ JobInit
    /\ max_retries = MaxApiRetries
    /\ called = FALSE
    /\ ret = NoReturn
    /\ \/ /\ callee = "_safe_float"
          /\ args \in [value : ScalarInputs, default : {Num(0)}]
       \/ /\ callee = "_to_float"
          /\ args \in [x : ScalarInputs, default : {Num(0)}]
       \/ /\ callee = "_format_timestamps"
          /\ args \in [raw_timestamps : TimestampInputs]
       \/ /\ callee = "_format_result"
          /\ args \in [api_result : ResponseInputs,
                       proper_transcript : TranscriptInputs,
                       lang_code : {Hin}]
       \/ /\ callee = "_resolve_language"
          /\ args \in [language : LanguageInputs,
                       default_language : DefaultLanguages]
       \/ /\ callee = "check_api_health"
          /\ args \in [answer : HealthAnswers]
       \/ /\ callee = "AnalysisResult.objects.create"
          /\ args \in [api_result : PersistInputs]

SafeFloatCall ==
    /\ callee = "_safe_float"
    /\ ~called
    /\ called' = TRUE
    /\ ret' = SafeFloat(args.value, args.default)
    /\ UNCHANGED <<callee, args, taskVars>>

ToFloatCall ==
    /\ callee = "_to_float"
    /\ ~called
    /\ called' = TRUE
    /\ ret' = ToFloat(args.x, args.default)
    /\ UNCHANGED <<callee, args, taskVars>>

FormatTimestampsCall ==
    /\ callee = "_format_timestamps"
    /\ ~called
    /\ called' = TRUE
    /\ ret' = FormatTimestamps(args.raw_timestamps)
    /\ UNCHANGED <<callee, args, taskVars>>

FormatResultCall ==
    /\ callee = "_format_result"
    /\ ~called
    /\ called' = TRUE
    /\ ret' = FormatResult(args.api_result, args.proper_transcript, args.lang_code)
    /\ UNCHANGED <<callee, args, taskVars>>

ResolveLanguageCall ==
    /\ callee = "_resolve_language"
    /\ ~called
    /\ called' = TRUE
    /\ ret' = ResolveLanguage(args.language, args.default_language)
    /\ UNCHANGED <<callee, args, taskVars>>

CheckApiHealthCall ==
    /\ callee = "check_api_health"
    /\ ~called
    /\ called' = TRUE
    /\ ret' = CheckApiHealth(args.answer)
    /\ UNCHANGED <<callee, args, taskVars>>

CreateAnalysisResultCall ==
    /\ callee = "AnalysisResult.objects.create"
    /\ ~called
    /\ called' = TRUE
    /\ ret' = PersistedResult(args.api_result)
    /\ UNCHANGED <<callee, args, taskVars>>

NextPure ==
    \/ SafeFloatCall
    \/ ToFloatCall
    \/ FormatTimestampsCall
    \/ FormatResultCall
    \/ ResolveLanguageCall
    \/ CheckApiHealthCall
    \/ CreateAnalysisResultCall

SpecPure == InitPure /\ [][NextPure]_vars


(* ------------------------------------------------------------------ *)
(* Properties                                                          *)
(* ------------------------------------------------------------------ *)

\* The rows of AnalysisResult that belong to recording id.
ResultsOf(id) == {i \in 1..Len(AnalysisResult) : AnalysisResult[i].recording = id}

\* The last n entries of a sequence.
LastN(q, n) == SubSeq(q, Len(q) - n + 1, Len(q))

AllowedTransitions ==
    {<<"pending", "processing">>, <<"processing", "completed">>,
     <<"processing", "failed">>, <<"failed", "processing">>}

\* C1: over all executions and retries of the one job of a Recording, every
\* change of the persisted status is pending->processing,
\* processing->completed, processing->failed or failed->processing; as no
\* allowed change starts at completed, completed is never left.
C1_StatusTransitions ==
    [][\A id \in RecordingIds :
          (/\ id \in DOMAIN AudioRecording
           /\ id \in DOMAIN AudioRecording'
           /\ AudioRecording'[id].status # AudioRecording[id].status)
          => <<AudioRecording[id].status, AudioRecording'[id].status>>
                 \in AllowedTransitions]_vars

\* C1 witness: a job that failed once and then completed has taken three of
\* the four changes, the fourth included in its retry.
C1_Witness ==
    /\ statusHist = <<"pending", "processing", "failed", "processing", "completed">>
    /\ lastExit = "success"

\* C2: a job that failed on every execution until the retry budget
\* (max_retries = 3, so four executions) was used up has ended: nothing is
\* queued or running, in this and every later state the status is failed, and
\* the error message is the non-empty message of the exception of the last
\* execution.
C2_TerminalFailure ==
    lastExit = "terminal" =>
        /\ pc = "idle"
        /\ queue = {}
        /\ request.retries = TaskMaxRetries
        /\ executions = TaskMaxRetries + 1
        /\ AudioRecording[request.recording_id].status = "failed"
        /\ AudioRecording[request.recording_id].error_message = Str(exc)
        /\ AudioRecording[request.recording_id].error_message # NoMessage

\* C2 witness: the fourth execution ended in the terminal failure, with an
\* HTTP timeout as the last cause and three retries scheduled before it.
C2_Witness ==
    /\ lastExit = "terminal"
    /\ Len(countdowns) = TaskMaxRetries
    /\ exc.cls = "TimeoutError"
    /\ AudioRecording[1].status = "failed"

\* C3: when a retry execution succeeds after a failed execution, the status
\* went failed -> processing -> completed after the failure, and the job has
\* ended with status completed and nothing queued.
C3_RetryThenCompleted ==
    (lastExit = "success" /\ request.retries >= 1) =>
        /\ Len(statusHist) >= 3
        /\ LastN(statusHist, 3) = <<"failed", "processing", "completed">>
        /\ AudioRecording[request.recording_id].status = "completed"
        /\ queue = {}
        /\ pc = "idle"

\* C3 witness: the third execution (second retry) succeeded.
C3_Witness ==
    /\ lastExit = "success"
    /\ request.retries = 2
    /\ AudioRecording[1].status = "completed"


\* C4: when an execution has ended -- by success, by a failure with a retry
\* scheduled, or by the terminal failure -- no temporary file of the
\* conversion is left on disk (a file whose os.remove raised is tolerated).
C4_TempFilesDeleted ==
    (pc = "idle" /\ lastExit \in {"success", "retry", "terminal"} /\ ~rmFailed)
        => tempFiles = {}

C6_ConnectFailuresThenSuccess ==
    (attempt >= 1 /\ seen \subseteq {"connect"} /\ fails = max_retries - 1) =>
        /\ (requests = fails => (callState = "running" /\ pc = "request"
                                 /\ attempt = max_retries))
        /\ (requests > fails =>
                /\ lastOutcome.cls = "ok"
                /\ requests = max_retries
                /\ sleeps = fails
                /\ pc # "request"
                /\ (lastOutcome.payload = "dict" => callState = "returned"))

\* C6 witness: two connect failures, then the third and last attempt
\* succeeded and analyze_audio returned.
C6_Witness ==
    /\ callState = "returned"
    /\ seen = {"connect"}
    /\ fails = 2
    /\ max_retries = 3
    /\ requests = 3

\* C7: in one analyze_audio call with max retries = M >= 1 in which every
\* attempt so far timed out, fewer than M requests leave the call running,
\* and with the M-th timeout the call has raised the TimeoutError that names
\* M tries: never more than M requests.
C7_TimeoutExhaustion ==
    (attempt >= 1 /\ seen = {"timeout"} /\ fails = requests) =>
        /\ requests <= max_retries
        /\ (requests < max_retries => callState = "running")
        /\ (requests = max_retries =>
                /\ callState = "raised"
                /\ pc # "request"
                /\ exc = Exc("TimeoutError",
                             Msg("timed_out_tried", max_retries, 0, 0, FALSE)))

\* C7 witness: max retries = 2, two timeouts, the exhausted error raised.
C7_Witness ==
    /\ max_retries = 2
    /\ seen = {"timeout"}
    /\ requests = 2
    /\ fails = 2
    /\ callState = "raised"
    /\ exc.cls = "TimeoutError"

\* C8: an HTTP error answer with a status other than 503 ends the call at
\* once: it has raised, without a wait after that attempt (every wait follows
\* an earlier attempt) and without another request, and the error is the
\* RuntimeError whose message carries the status and the response text cut to
\* 200 characters.
C8_HttpErrorNotRetried ==
    (callState # "none" /\ lastOutcome.cls = "http" /\ lastOutcome.status # 503) =>
        /\ callState = "raised"
        /\ pc # "request"
        /\ sleeps = requests - 1
        /\ exc.cls = "RuntimeError"
        /\ exc.msg.tmpl = "api_error"
        /\ exc.msg.status = lastOutcome.status
        /\ exc.msg.body <= TruncLen
        /\ exc.msg.body = Min(lastOutcome.body, TruncLen)

\* C8 witness: a 500 with a text of 250 characters on the second attempt.
C8_Witness ==
    /\ lastOutcome.cls = "http"
    /\ lastOutcome.status = 500
    /\ lastOutcome.body = 250
    /\ requests = 2
    /\ callState = "raised"
    /\ exc.msg.body = 200

\* The class and message format of the error of an HTTP error that is not
\* retried (a first-attempt failure with a status other than 503).
SingleAttemptErrors ==
    {OuterExcept(HTTPErrorHandler(1, max_retries, st, b).exc) :
        st \in HttpErrorStatuses \ {503}, b \in BodyLens}

\* An "exhausted" error: its message reports the number of attempts made, and
\* neither its class nor its message format is that of a single-attempt
\* failure.
IsExhaustedError(e) ==
    /\ e.msg.n = max_retries
    /\ \A f \in SingleAttemptErrors : <<e.cls, e.msg.tmpl>> # <<f.cls, f.msg.tmpl>>

\* C9: when all max-retries attempts of a call (two or more, so that the
\* failure was retried) failed with one retryable class (connect failure,
\* timeout, or HTTP 503), the error raised is an
\* "exhausted" error, distinguishable from that of a failure that was not
\* retried.
C9_ExhaustedErrorDistinct ==
    (/\ callState = "raised"
     /\ attempt >= 1
     /\ fails = requests
     /\ requests = max_retries
     /\ requests >= 2
     /\ \E c \in {"connect", "timeout", "http503"} : seen = {c})
        => IsExhaustedError(exc)

\* C10: every external call of an execution (the audio-file check, the
\* duration measurement, the converter, the analysis service) was made while
\* the persisted status was processing, never pending or failed.
C10_ProcessingBeforeExternalCalls ==
    \A c \in callLog : c[2] = "processing"

\* C10 witness: a retry execution, entered with status failed, has made all
\* four kinds of external call.
C10_Witness ==
    /\ request.retries >= 1
    /\ {c[1] : c \in callLog} =
           {"file_check", "duration", "converter", "analysis_service"}
    /\ pc = "create_result"

\* C11: an execution that finds no Recording when it starts returns at once:
\* it writes no status and no error message, creates no result, calls neither
\* the converter nor the analysis service, and schedules no retry.
C11_MissingRecordingReturns ==
    [][(pc = "get" /\ ~Exists(request.recording_id)) =>
          /\ pc' = "idle"
          /\ lastExit' = "notfound"
          /\ AudioRecording' = AudioRecording
          /\ AnalysisResult' = AnalysisResult
          /\ callLog' = callLog
          /\ tempFiles' = tempFiles
          /\ queue' = queue
          /\ countdowns' = countdowns
          /\ requests' = 0
          /\ converted_path' = "none"
          /\ callState' = "none"
          /\ exc' = NoExc]_vars

\* C11 witness: the recording was deleted after a failed execution, and the
\* retry execution found nothing and ended the job.
C11_Witness ==
    /\ lastExit = "notfound"
    /\ pc = "idle"
    /\ request.retries = 1
    /\ ~Exists(request.recording_id)
    /\ queue = {}

\* C12: the k-th retry of a job (k = 1, 2, 3) is scheduled with the delay
\* base_delay * k, so the delays are 60, 120, 180, each longer than the one
\* before, and once the three retries are used up no further one is scheduled.
C12_LinearBackoff ==
    /\ Len(countdowns) <= TaskMaxRetries
    /\ \A k \in 1..Len(countdowns) : countdowns[k] = BaseDelay * k
    /\ \A k \in 2..Len(countdowns) : countdowns[k - 1] < countdowns[k]
    /\ \A m \in queue :
          /\ m.retries <= TaskMaxRetries
          /\ m.retries >= 1 => m.countdown = BaseDelay * m.retries
    /\ lastExit = "terminal" => (queue = {} /\ Len(countdowns) = TaskMaxRetries)

\* C12 witness: four executions failed; the three retries were scheduled
\* with 60, 120 and 180 seconds and the fourth failure scheduled nothing.
C12_Witness ==
    /\ countdowns = <<60, 120, 180>>
    /\ lastExit = "terminal"
    /\ executions = 4
    /\ queue = {}

\* C13: the conversion is attempted once per execution; when it fails, for
\* whatever reason, the execution goes on and calls the analysis service with
\* the original source path, and the failure is not what sets the status to
\* failed or schedules a retry: the handler is entered only for what the
\* analysis call or the creation of the result raised.
C13_ConversionFailureTolerated ==
    /\ conversions <= 1
    /\ callState # "none" => conversions = 1
    /\ pc = "analyze" =>
          /\ conversions = 1
          /\ exc = NoExc
          /\ PersistedStatus(request.recording_id) = "processing"
    /\ (conv_failed /\ callState # "none") => file_path = "audio"
    /\ (conv_failed /\ pc \in {"handler", "retry"}) =>
          (callState = "raised" \/ exc.cls = "IntegrityError")
    /\ (conv_failed /\ pc = "idle" /\ callState = "returned" /\ exc = NoExc) =>
          /\ lastExit = "success"
          /\ PersistedStatus(request.recording_id) = "completed"

\* C13 witness: the conversion of the first execution failed, the analysis
\* service was called with the source file and the job completed.
C13_Witness ==
    /\ conv_failed
    /\ conversions = 1
    /\ file_path = "audio"
    /\ requests >= 1
    /\ executions = 1
    /\ lastExit = "success"
    /\ pc = "idle"
    /\ PersistedStatus(request.recording_id) = "completed"
    /\ countdowns = << >>

\* C14: for every response mapping, whatever the kinds of its numeric
\* entries, of stutter_timestamps and of the entries of that list (a mapping
\* whose start or end is a string or null among them), _format_result
\* returns a result and raises nothing.
C14_NormalizationNeverRaises ==
    (callee = "_format_result" /\ called) => ret.exc = "none"

\* The encodings of an event the normalizer is said to accept: a mapping
\* with a start and an end bound under either pair of names, and a sequence
\* of two or three items.
AcceptedEncoding(evt) ==
    \/ /\ evt.shape = "dict"
       /\ evt.f.start.t # "missing" \/ evt.f.start_time.t # "missing"
       /\ evt.f.end.t # "missing" \/ evt.f.end_time.t # "missing"
    \/ /\ evt.shape = "list"
       /\ Len(evt.items) \in {2, 3}

CanonicalKeys == {"type", "start", "end", "duration", "confidence", "text"}

\* C15: of a list of raw events, every event in an accepted encoding gives
\* one record with exactly the six canonical keys, in the order of the input,
\* a two-item sequence with type "dysfluency" and confidence 0.5; every other
\* event is dropped, so the output is as long as the input has accepted
\* events. Stated of the lists on which the normalizer returns.
C15_EventCanonicalization ==
    (/\ callee = "_format_timestamps"
     /\ called
     /\ args.raw_timestamps.t = "list"
     /\ ret.exc = "none") =>
        LET evts == args.raw_timestamps.events
            accepted == SelectSeq(evts, AcceptedEncoding)
        IN  /\ Len(ret.val) = Len(accepted)
            /\ \A i \in 1..Len(ret.val) :
                  /\ DOMAIN ret.val[i] = CanonicalKeys
                  /\ (accepted[i].shape = "list" /\ Len(accepted[i].items) = 2) =>
                        /\ ret.val[i].type = Dysfluency
                        /\ ret.val[i].confidence = Num(5)

\* C16: the record of a mapping event without an explicit duration has the
\* duration end - start of its own canonical bounds, under whichever names
\* the bounds came; with an explicit duration it has that duration.
C16_MappingEventDuration ==
    (/\ callee = "_format_timestamps"
     /\ called
     /\ args.raw_timestamps.t = "list"
     /\ \A i \in 1..Len(args.raw_timestamps.events) :
           args.raw_timestamps.events[i].shape = "dict"
     /\ ret.exc = "none") =>
        /\ Len(ret.val) = Len(args.raw_timestamps.events)
        /\ \A i \in 1..Len(ret.val) :
              LET given == args.raw_timestamps.events[i].f.duration
              IN  ret.val[i].duration =
                      IF given.t = "missing"
                      THEN FSub(ret.val[i].end, ret.val[i].start)
                      ELSE given

\* The sum of the duration entries of canonical records.
SumOfDurations(recs) ==
    LET upTo[k \in 0..Len(recs)] ==
            IF k = 0 THEN Num(0) ELSE FAdd(upTo[k - 1], recs[k].duration)
    IN  upTo[Len(recs)]

\* C17: when the response has no total_stutter_duration, the total of the
\* result is the sum of the duration entries of its canonical events, those
\* with an explicit duration included.
C17_TotalIsSumOfDurations ==
    (/\ callee = "_format_result"
     /\ called
     /\ ret.exc = "none"
     /\ args.api_result.total_stutter_duration.t = "missing") =>
        ret.val.total_stutter_duration = SumOfDurations(ret.val.stutter_timestamps)

\* A transcript that is missing, null, empty or whitespace.
Blank(v) == v.t \in {"missing", "null"} \/ (v.t = "str" /\ Strip(v.c) = << >>)

\* C18: when the reference transcript of the response is blank and the
\* caller supplied one, the result has the caller's, trimmed; the recognized
\* transcript of the result is that of the response, trimmed.
C18_TranscriptFallback ==
    (callee = "_format_result" /\ called /\ ret.exc = "none") =>
        /\ (Blank(args.api_result.target_transcript) /\ args.proper_transcript # << >>)
              => ret.val.target_transcript = Strip(args.proper_transcript)
        /\ args.api_result.actual_transcript.t = "str"
              => ret.val.actual_transcript = Strip(args.api_result.actual_transcript.c)

\* A value that is no number: null, a list or mapping, a string float()
\* does not parse.
Malformed(v) ==
    \/ v.t \in {"null", "obj"}
    \/ v.t = "str" /\ ParseFloat(v.c).exc # "none"

\* C19: _safe_float and _to_float return 0.0 for every malformed value and
\* raise for no value at all.
C19_CoercionNeverRaises ==
    (called /\ callee \in {"_safe_float", "_to_float"}) =>
        LET value == IF callee = "_safe_float" THEN args.value ELSE args.x
        IN  /\ ret.exc = "none"
            /\ Malformed(value) => ret.val = Num(0)

LanguageKeys == {INDIAN_LANGUAGE_CODES[i][1] : i \in DOMAIN INDIAN_LANGUAGE_CODES}

\* A name of three or more characters that, case and surrounding blanks
\* aside, is no key of the table and shares its first three characters with
\* none.
Unmatched(c) ==
    LET name == Strip(Lower(c))
    IN  /\ Len(name) >= 3
        /\ name \notin LanguageKeys
        /\ \A key \in LanguageKeys : FirstThree(name) # FirstThree(key)

\* C20: a language name with neither an exact nor a three-character prefix
\* match resolves, without raising, to the code of the configured default
\* language, the code an absent language resolves to.
C20_UnknownLanguageIsDefault ==
    (/\ callee = "_resolve_language"
     /\ called
     /\ args.language.t = "str"
     /\ Unmatched(args.language.c)) =>
        /\ ret.exc = "none"
        /\ ret.val = ResolveLanguage(None, args.default_language).val

\* The executions of the job that exist at this moment: the messages the
\* broker holds, which any worker of the pool may take, and the execution
\* that is running.
InFlight == IF pc = "idle" THEN 0 ELSE 1
Scheduled == Cardinality(queue)

IsMissingFile(e) == e.cls = "FileNotFoundError" /\ e.msg.tmpl = "audio_file_not_found_at"

\* C22: whatever the class of the failure, an execution that failed has set
\* status failed with the message of its exception, and it has scheduled its
\* re-execution exactly when fewer than max_retries retries were used: the
\* same budget for a missing file, a permanent rejection and an exhausted
\* transient failure, up to four executions each.
C22_SameRetryBudget ==
    /\ pc = "retry" =>
          /\ AudioRecording[request.recording_id].status = "failed"
          /\ AudioRecording[request.recording_id].error_message = Str(exc)
          /\ Str(exc) # NoMessage
    /\ (pc = "idle" /\ lastExit \in {"retry", "terminal"}) =>
          /\ exc # NoExc
          /\ AudioRecording[request.recording_id].status = "failed"
          /\ AudioRecording[request.recording_id].error_message = Str(exc)
          /\ (lastExit = "retry") = (request.retries < TaskMaxRetries)
          /\ lastExit = "retry" =>
                queue = {Message(request.recording_id, request.retries + 1,
                                 Countdown(request.retries))}
          /\ lastExit = "terminal" => (queue = {} /\ executions = TaskMaxRetries + 1)

\* C22 witness: the file was missing in the fourth execution too, after three
\* retries, and the job ended failed with that message.
C22_Witness ==
    /\ lastExit = "terminal"
    /\ IsMissingFile(exc)
    /\ executions = TaskMaxRetries + 1
    /\ countdowns = <<60, 120, 180>>
    /\ AudioRecording[1].status = "failed"
    /\ AudioRecording[1].error_message = Str(exc)

\* C23: check_api_health raises nothing, whatever the health endpoint
\* brings, and it reports healthy exactly for an answer with status 200,
\* whether the text of that answer is empty, JSON or not JSON; every other
\* status, a timeout, a connect failure and any other exception are reported
\* unhealthy.
C23_HealthCheck ==
    (callee = "check_api_health" /\ called) =>
        /\ ret.exc = "none"
        /\ ret.val.healthy =
              (args.answer.cls = "response" /\ args.answer.status = 200)

\* AnalysisResult.SEVERITY_CHOICES
SeverityChoices ==
    {<<"n", "o", "n", "e">>, <<"m", "i", "l", "d">>, <<"m", "o", "d", "e", "r", "a", "t", "e">>, <<"s", "e", "v", "e", "r", "e">>}

\* x is a number between lo and hi (in tenths).
Within(x, lo, hi) == x.t = "num" /\ lo <= x.n /\ x.n <= hi

\* C24: whatever severity, mismatch percentage and confidence the analysis
\* service answered, the AnalysisResult row that is inserted has a severity
\* among none, mild, moderate and severe, a mismatch percentage between 0
\* and 100 and a confidence between 0 and 1.
C24_PersistedResultInRange ==
    (callee = "AnalysisResult.objects.create" /\ called /\ ret.exc = "none") =>
        /\ ret.val.severity \in SeverityChoices
        /\ Within(ret.val.mismatch_percentage, 0, 1000)
        /\ Within(ret.val.confidence_score, 0, 10)

\* C25: in every state the processed timestamp of the Recording is set
\* exactly when its status is completed, in the row and in the instance the
\* task holds: it is stamped by the write that sets completed and by no
\* other.
C25_ProcessedIffCompleted ==
    /\ \A id \in RecordingIds :
         Exists(id) =>
            ((AudioRecording[id].processed_at = "set")
                = (AudioRecording[id].status = "completed"))
    /\ (recording.processed_at = "set") = (recording.status = "completed")

\* C25 witness: both sides of the equivalence in one history: the row was
\* failed without a timestamp, and its retry completed it with one.
C25_Witness ==
    /\ statusHist = <<"pending", "processing", "failed", "processing", "completed">>
    /\ AudioRecording[1].processed_at = "set"
    /\ AudioRecording[1].status = "completed"

C27_ErrorMessageKept ==
    [][\A id \in RecordingIds :
          (Exists(id) /\ id \in DOMAIN AudioRecording') =>
             /\ pc # "handler" =>
                   AudioRecording'[id].error_message = AudioRecording[id].error_message
             /\ pc = "handler" =>
                   AudioRecording'[id].error_message = Str(exc)
             /\ (AudioRecording'[id].status = "completed" /\ request.retries >= 1) =>
                   AudioRecording'[id].error_message # NoMessage]_vars

\* C27 witness: the first execution failed with a timeout, the retry
\* completed, and the row a status query reads is completed with the
\* message of the timeout.
C27_Witness ==
    /\ lastExit = "success"
    /\ request.retries = 1
    /\ AudioRecording[1].status = "completed"
    /\ AudioRecording[1].error_message.tmpl = "timed_out_tried"

\* C29: in one analyze_audio call the attempts of all failure classes are
\* counted together: never more than max retries requests, whatever the mix;
\* a request exception that is neither a timeout, a connect failure nor an
\* HTTP error is followed by the same wait and the next attempt as a
\* transient failure while attempts are left, and on the last attempt it
\* raises the "Request failed after N attempts" error.
C29_SharedAttemptCounter ==
    /\ requests <= max_retries
    /\ callState = "running" => (attempt = requests + 1 /\ sleeps = requests)
    /\ \A att \in 1..(max_retries - 1) :
          /\ RequestExceptionHandler(att, max_retries) = Sleep
          /\ RequestExceptionHandler(att, max_retries)
                = ConnectionErrorHandler(att, max_retries)
          /\ RequestExceptionHandler(att, max_retries)
                = TimeoutHandler(att, max_retries)
    /\ (callState # "none" /\ lastOutcome.cls = "reqexc") =>
          /\ requests < max_retries =>
                (callState = "running" /\ sleeps = requests)
          /\ requests = max_retries =>
                /\ callState = "raised"
                /\ pc # "request"
                /\ sleeps = requests - 1
                /\ exc.cls = "RuntimeError"
                /\ exc.msg.tmpl = "request_failed_after"
                /\ exc.msg.n = max_retries

\* C29 witness: three attempts of three classes -- a timeout, a 503 and a
\* request exception -- used up max retries = 3, and the last raised.
C29_Witness ==
    /\ max_retries = 3
    /\ requests = 3
    /\ seen = {"timeout", "http503", "reqexc"}
    /\ lastOutcome.cls = "reqexc"
    /\ callState = "raised"
    /\ exc.msg.tmpl = "request_failed_after"

\* The job has stopped: no execution runs, the broker holds no message, and
\* the Recording is completed, failed, or gone.
Stopped ==
    /\ pc = "idle"
    /\ queue = {}
    /\ PersistedStatus(1) \in {"completed", "failed", "absent"}

\* The scheduling the claim of termination rests on: a worker takes every
\* message the broker holds, and every statement of an execution returns
\* (requests.post by its timeout, time.sleep after retry_delay).
Fairness == WF_vars(Next)

\* The client makes one or two attempts per call here: what is looked at is
\* the end of the job, over all its executions.
InitStop == Init /\ max_retries \in 1..2

\* The job under that scheduling.
SpecStop == InitStop /\ [][Next]_vars /\ Fairness

\* C28: the job is executed at most four times (the first run and
\* max_retries = 3 retries), each execution sends at most
\* STUTTER_API_MAX_RETRIES requests, so that all executions together send at
\* most four times that many, and the job stops: from some moment on nothing
\* runs or is scheduled and the Recording is completed, failed or gone.
C28_JobStops ==
    /\ [](/\ executions <= TaskMaxRetries + 1
          /\ requests <= max_retries
          /\ \A m \in queue : m.retries <= TaskMaxRetries
          /\ (executions - 1) * max_retries + requests
                <= (TaskMaxRetries + 1) * max_retries)
    /\ <>[]Stopped

\* C28 witness: the job stopped failed after four executions of three
\* requests each.
C28_Witness ==
    /\ Stopped
    /\ executions = TaskMaxRetries + 1
    /\ max_retries = 2
    /\ requests = max_retries
    /\ lastOutcome.cls = "timeout"
    /\ lastExit = "terminal"

\* C30: when the Recording was deleted while its execution was running and
\* the execution failed, the failure handler has written nothing and the
\* Recording has not come back; the retry is scheduled all the same while
\* the budget lasts, and finds no Recording.
C30_DeletedInFlightThenFailed ==
    /\ (deleted /\ pc = "retry") => ~Exists(request.recording_id)
    /\ (deleted /\ pc = "idle" /\ lastExit = "retry") =>
          /\ ~Exists(request.recording_id)
          /\ queue = {Message(request.recording_id, request.retries + 1,
                              Countdown(request.retries))}
    /\ (deleted /\ pc = "idle" /\ lastExit = "terminal") =>
          (~Exists(request.recording_id) /\ queue = {})

====
